---- MODULE Spec2Model ----
(***************************************************************************)
(* Model of src/ahs/annofab_har_sanitizer.py: the HAR sanitizer.           *)
(*                                                                         *)
(* Strings that the program parses (URLs) are sequences of tokens.  A      *)
(* token is either a word (a maximal run of unreserved characters, such as *)
(* "X-Amz-Signature"), one reserved character (":", "/", "?", "#", ";",    *)
(* "&", "=", "+", " ", tab, newline, carriage return) or one percent       *)
(* escape ("%3D").  The string a token sequence stands for is the          *)
(* concatenation of its tokens; no input holds two adjacent words, so the  *)
(* reading is unique.  The alphabet has no "[", "]", "%" on its own or     *)
(* character outside ASCII: urlsplit's IPv6 bracket check and              *)
(* _checknetloc, which only act on those, never raise here.  Strings the   *)
(* program only copies or overwrites (header values, bodies) are TLA+      *)
(* strings.                                                                *)
(***************************************************************************)
EXTENDS Integers, Sequences, FiniteSets, TLC

VARIABLES
    \* ---- mask_query_string, run on its own (SpecMask) ----
    mpc,            \* position in mask_query_string: "call", "parsed", "masked", "done", or "off"
    url,            \* the url argument
    parsed_url,     \* urlparse(url)
    query_params,   \* the dict parse_qs built, then masked in place
    masked_url,     \* the returned string
    \* ---- main / sanitize_har_object (Spec, SpecTwice) ----
    pc,             \* position in main
    input_data,     \* the document as json.loads returned it (never changes)
    data,           \* the same document object, mutated in place
    idx,            \* index of the entry the for loop of sanitize_har_object is at
    step,           \* the statement of the loop body to run next
    error,          \* "none", or the exception that ended the run and the step that raised it
    output,         \* args.output: TRUE when -o was given
    written,        \* what main produced: file, parent directory, standard output
    pass,           \* which call of sanitize_har_object is running (1 or 2)
    first           \* the document the first call returned

vars == <<mpc, url, parsed_url, query_params, masked_url,
          pc, input_data, data, idx, step, error, output, written, pass, first>>

maskVars == <<mpc, url, parsed_url, query_params, masked_url>>
mainVars == <<pc, input_data, data, idx, step, error, output, written, pass, first>>

(***************************************************************************)
(* Bounds of the model.                                                    *)
(***************************************************************************)
MaxParams == 3      \* fields of a query string drawn for mask_query_string
MaxEntries == 3     \* entries of log.entries

(***************************************************************************)
(* Program constants.                                                      *)
(***************************************************************************)
STR_REDACTED == "REDACTED"

SENSITIVE_KEYS == {"X-Amz-Credential", "X-Amz-Signature", "X-Amz-Security-Token"}

(***************************************************************************)
(* str helpers, on token sequences.                                        *)
(***************************************************************************)
\* s.find(c, start): the least index >= start holding c, 0 when there is none.
Find(s, c, start) ==
    IF \E i \in start..Len(s) : s[i] = c
    THEN CHOOSE i \in start..Len(s) : s[i] = c /\ \A j \in start..(i-1) : s[j] # c
    ELSE 0

\* s.rfind(c): the greatest index holding c, 0 when there is none.
RFind(s, c) ==
    IF \E i \in 1..Len(s) : s[i] = c
    THEN CHOOSE i \in 1..Len(s) : s[i] = c /\ \A j \in (i+1)..Len(s) : s[j] # c
    ELSE 0

Contains(s, c) == \E i \in 1..Len(s) : s[i] = c

Tail_(s, i) == SubSeq(s, i, Len(s))

\* s.split(c): the pieces between the occurrences of c.
RECURSIVE Split(_, _)
Split(s, c) ==
    IF ~Contains(s, c) THEN <<s>>
    ELSE <<SubSeq(s, 1, Find(s, c, 1) - 1)>> \o Split(Tail_(s, Find(s, c, 1) + 1), c)

\* s.split(c, 1): at most two pieces.
Split1(s, c) ==
    IF ~Contains(s, c) THEN <<s>>
    ELSE <<SubSeq(s, 1, Find(s, c, 1) - 1), Tail_(s, Find(s, c, 1) + 1)>>

\* c.join(parts)
RECURSIVE Join(_, _)
Join(parts, c) ==
    IF Len(parts) = 0 THEN <<>>
    ELSE IF Len(parts) = 1 THEN parts[1]
    ELSE parts[1] \o <<c>> \o Join(Tail(parts), c)

(***************************************************************************)
(* The token alphabet.                                                     *)
(***************************************************************************)
\* Words: runs of letters, digits, "-", "." that start with a letter.  Each is
\* made of scheme characters only and is left alone by quote_plus.
Words == {"https", "HTTPS", "http", "x.example", "a", "p", "f", "foo", "bar1",
          "secret", "other", "X-Amz-Signature", "X-Amz-Credential",
          "X-Amz-Security-Token", "x-amz-signature", "x-amz-credential",
          "x-amz-security-token", "REDACTED", "redacted"}

\* str.lower() of a token.
Lower(t) ==
    CASE t = "HTTPS" -> "https"
      [] t = "X-Amz-Signature" -> "x-amz-signature"
      [] t = "X-Amz-Credential" -> "x-amz-credential"
      [] t = "X-Amz-Security-Token" -> "x-amz-security-token"
      [] t = "REDACTED" -> "redacted"
      [] OTHER -> t

LowerSeq(s) == [i \in 1..Len(s) |-> Lower(s[i])]

\* urllib.parse.uses_params and uses_netloc (the schemes, as token sequences).
uses_params == {<<>>, <<"ftp">>, <<"hdl">>, <<"prospero">>, <<"http">>, <<"imap">>,
                <<"https">>, <<"shttp">>, <<"rtsp">>, <<"rtsps">>, <<"rtspu">>, <<"sip">>,
                <<"sips">>, <<"mms">>, <<"sftp">>, <<"tel">>}

uses_netloc == {<<>>, <<"ftp">>, <<"http">>, <<"gopher">>, <<"nntp">>, <<"telnet">>,
                <<"imap">>, <<"wais">>, <<"file">>, <<"mms">>, <<"https">>, <<"shttp">>,
                <<"snews">>, <<"prospero">>, <<"rtsp">>, <<"rtsps">>, <<"rtspu">>,
                <<"rsync">>, <<"svn">>, <<"svn", "+", "ssh">>, <<"sftp">>, <<"nfs">>,
                <<"git">>, <<"git", "+", "ssh">>, <<"ws">>, <<"wss">>}

(***************************************************************************)
(* urllib.parse.urlparse and urlunparse (CPython 3.11).  Each function is  *)
(* written as the chain of its statements: an operator takes the values    *)
(* the statements before it computed.                                      *)
(***************************************************************************)
\* _splitnetloc(url, 2): the domain ends at the first of "/", "?", "#".
NetlocEnd(cands, dflt) ==
    IF cands = {} THEN dflt ELSE CHOOSE d \in cands : \A e \in cands : d <= e

NetlocAt(u, delim) == [netloc |-> SubSeq(u, 3, delim - 1), rest |-> Tail_(u, delim)]

splitnetloc(u) ==
    NetlocAt(u, NetlocEnd({Find(u, c, 3) : c \in {"/", "?", "#"}} \ {0}, Len(u) + 1))

\* i = url.find(':'); if i > 0 and url[0].isascii() and url[0].isalpha():
\*     for c in url[:i]: if c not in scheme_chars: break
\* The index of the ":" that ends the scheme, 0 when the url has no scheme.
SchemeEndAt(u, i) ==
    IF /\ i > 1
       /\ u[1] \in Words
       /\ \A j \in 1..(i-1) : u[j] \in Words \cup {"+"}
    THEN i ELSE 0

\* if '?' in url: url, query = url.split('?', 1)
SplitQuery(scheme, netloc, qu, fragment) ==
    [scheme |-> scheme, netloc |-> netloc, path |-> qu[1],
     query |-> IF Len(qu) = 2 THEN qu[2] ELSE <<>>, fragment |-> fragment]

\* if allow_fragments and '#' in url: url, fragment = url.split('#', 1)
SplitFragment(scheme, netloc, fr) ==
    SplitQuery(scheme, netloc, Split1(fr[1], "?"), IF Len(fr) = 2 THEN fr[2] ELSE <<>>)

SplitRest(scheme, nl) == SplitFragment(scheme, nl.netloc, Split1(nl.rest, "#"))

\* if url[:2] == '//': netloc, url = _splitnetloc(url, 2)
SplitNetloc(scheme, u) ==
    SplitRest(scheme,
              IF Len(u) >= 2 /\ u[1] = "/" /\ u[2] = "/"
              THEN splitnetloc(u)
              ELSE [netloc |-> <<>>, rest |-> u])

\* scheme, url = url[:i].lower(), url[i+1:]
SplitScheme(u, i) ==
    IF i = 0 THEN SplitNetloc(<<>>, u)
    ELSE SplitNetloc(LowerSeq(SubSeq(u, 1, i-1)), Tail_(u, i+1))

\* url = url.lstrip(_WHATWG_C0_CONTROL_OR_SPACE): leading spaces and control
\* characters (of which the alphabet has tab, newline, carriage return) go.
RECURSIVE LStrip(_)
LStrip(u) ==
    IF u # <<>> /\ Head(u) \in {" ", "\t", "\n", "\r"} THEN LStrip(Tail(u)) ELSE u

\* for b in _UNSAFE_URL_BYTES_TO_REMOVE: url = url.replace(b, "")
RemoveUnsafe(u) == SelectSeq(u, LAMBDA t : t \notin {"\t", "\r", "\n"})

SplitStripped(u) == SplitScheme(u, SchemeEndAt(u, Find(u, ":", 1)))

urlsplit(u) == SplitStripped(RemoveUnsafe(LStrip(u)))

\* _splitparams(url)
SplitParamsAt(u, i) ==
    IF i = 0 THEN [path |-> u, params |-> <<>>]
    ELSE [path |-> SubSeq(u, 1, i-1), params |-> Tail_(u, i+1)]

splitparams(u) ==
    SplitParamsAt(u, IF Contains(u, "/") THEN Find(u, ";", RFind(u, "/"))
                     ELSE Find(u, ";", 1))

ParseResult(s, sp) ==
    [scheme |-> s.scheme, netloc |-> s.netloc, path |-> sp.path,
     params |-> sp.params, query |-> s.query, fragment |-> s.fragment]

\* if scheme in uses_params and ';' in url: url, params = _splitparams(url)
\* else: params = ''
WithParams(s) ==
    ParseResult(s, IF s.scheme \in uses_params /\ Contains(s.path, ";")
                   THEN splitparams(s.path)
                   ELSE [path |-> s.path, params |-> <<>>])

urlparse(u) == WithParams(urlsplit(u))

\* if fragment: url = url + '#' + fragment
AddFragment(u, fragment) ==
    IF fragment # <<>> THEN u \o <<"#">> \o fragment ELSE u

\* if query: url = url + '?' + query
AddQuery(u, query) ==
    IF query # <<>> THEN u \o <<"?">> \o query ELSE u

\* if scheme: url = scheme + ':' + url
AddScheme(scheme, u) ==
    IF scheme # <<>> THEN scheme \o <<":">> \o u ELSE u

\* if netloc or (scheme and scheme in uses_netloc and url[:2] != '//'):
\*     if url and url[:1] != '/': url = '/' + url
\*     url = '//' + (netloc or '') + url
AddNetloc(scheme, netloc, path) ==
    IF \/ netloc # <<>>
       \/ /\ scheme # <<>>
          /\ scheme \in uses_netloc
          /\ ~(Len(path) >= 2 /\ path[1] = "/" /\ path[2] = "/")
    THEN <<"/", "/">> \o netloc
         \o (IF path # <<>> /\ path[1] # "/" THEN <<"/">> ELSE <<>>) \o path
    ELSE path

urlunsplit(scheme, netloc, path, query, fragment) ==
    AddFragment(AddQuery(AddScheme(scheme, AddNetloc(scheme, netloc, path)), query),
                fragment)

\* if params: url = "%s;%s" % (url, params)
urlunparse(scheme, netloc, path, params, query, fragment) ==
    urlunsplit(scheme, netloc,
               IF params # <<>> THEN path \o <<";">> \o params ELSE path,
               query, fragment)

(***************************************************************************)
(* urllib.parse.parse_qs and urlencode(doseq=True).                        *)
(***************************************************************************)
\* unquote of one token, after "+" was replaced by " ".
UnquoteTok(t) ==
    CASE t = "+" -> " "
      [] t = "%3D" -> "="
      [] t = "%26" -> "&"
      [] t = "%2B" -> "+"
      [] t = "%3A" -> ":"
      [] t = "%2F" -> "/"
      [] t = "%3F" -> "?"
      [] t = "%3B" -> ";"
      [] t = "%23" -> "#"
      [] t = "%09" -> "\t"
      [] t = "%0A" -> "\n"
      [] t = "%0D" -> "\r"
      [] OTHER -> t

unquote(s) == [i \in 1..Len(s) |-> UnquoteTok(s[i])]

\* quote_plus of one character (or word): unreserved characters stay, a space
\* becomes "+", every other character is percent-encoded.
QuoteTok(t) ==
    CASE t = " " -> "+"
      [] t = "=" -> "%3D"
      [] t = "&" -> "%26"
      [] t = "+" -> "%2B"
      [] t = ":" -> "%3A"
      [] t = "/" -> "%2F"
      [] t = "?" -> "%3F"
      [] t = ";" -> "%3B"
      [] t = "#" -> "%23"
      [] t = "\t" -> "%09"
      [] t = "\n" -> "%0A"
      [] t = "\r" -> "%0D"
      [] OTHER -> t

quote_plus(s) == [i \in 1..Len(s) |-> QuoteTok(s[i])]

\* What parse_qsl appends for one field, nv = name_value.split('=', 1), with
\* keep_blank_values False and strict_parsing False: nothing for a field with
\* no "=" (an empty field too) and nothing for a field with an empty value.
FieldPairs(nv) ==
    IF Len(nv) = 2 /\ nv[2] # <<>>
    THEN <<[name |-> unquote(nv[1]), value |-> unquote(nv[2])]>>
    ELSE <<>>

\* for name_value in query_args: ...
RECURSIVE QslFields(_)
QslFields(fields) ==
    IF fields = <<>> THEN <<>>
    ELSE FieldPairs(Split1(Head(fields), "=")) \o QslFields(Tail(fields))

\* parse_qsl(qs): the (name, value) pairs, in order.
parse_qsl(qs) == IF qs = <<>> THEN <<>> ELSE QslFields(Split(qs, "&"))

\* if name in parsed_result: parsed_result[name].append(value)
\* else: parsed_result[name] = [value]
\* The dict is the sequence of its items in insertion order.
AddPair(acc, p) ==
    IF \E k \in 1..Len(acc) : acc[k].name = p.name
    THEN [k \in 1..Len(acc) |->
             IF acc[k].name = p.name
             THEN [acc[k] EXCEPT !.values = Append(@, p.value)]
             ELSE acc[k]]
    ELSE Append(acc, [name |-> p.name, values |-> <<p.value>>])

RECURSIVE GroupPairs(_, _)
GroupPairs(pairs, acc) ==
    IF pairs = <<>> THEN acc
    ELSE GroupPairs(Tail(pairs), AddPair(acc, Head(pairs)))

parse_qs(qs) == GroupPairs(parse_qsl(qs), <<>>)

\* for elt in v: l.append(k + '=' + elt), both quoted by quote_plus
EncodeItem(item) ==
    [j \in 1..Len(item.values) |->
        quote_plus(item.name) \o <<"=">> \o quote_plus(item.values[j])]

RECURSIVE EncodeItems(_)
EncodeItems(items) ==
    IF items = <<>> THEN <<>>
    ELSE EncodeItem(Head(items)) \o EncodeItems(Tail(items))

\* urlencode(query_params, doseq=True)
urlencode(items) == Join(EncodeItems(items), "&")

(***************************************************************************)
(* mask_query_string                                                       *)
(***************************************************************************)
\* for key in masked_keys: if key in query_params:
\*     query_params[key] = [STR_REDACTED] * len(query_params[key])
MaskParams(items, masked_keys) ==
    [k \in 1..Len(items) |->
        IF \E key \in masked_keys : items[k].name = <<key>>
        THEN [items[k] EXCEPT !.values = [j \in 1..Len(@) |-> <<STR_REDACTED>>]]
        ELSE items[k]]

\* masked_query = urlencode(query_params, doseq=True); masked_url = urlunparse(...)
Reconstruct(p, items) ==
    urlunparse(p.scheme, p.netloc, p.path, p.params, urlencode(items), p.fragment)

MaskParsed(p, masked_keys) ==
    Reconstruct(p, MaskParams(parse_qs(p.query), masked_keys))

mask_query_string(u, masked_keys) == MaskParsed(urlparse(u), masked_keys)

(***************************************************************************)
(* JSON objects are functions from keys to values; a key the object lacks  *)
(* is not in its domain.                                                   *)
(***************************************************************************)
Has(obj, key) == key \in DOMAIN obj

\* obj[key] = value
Put(obj, key, value) ==
    [k \in DOMAIN obj \cup {key} |-> IF k = key THEN value ELSE obj[k]]

NoError == [kind |-> "none", step |-> "none", at |-> 0]

(***************************************************************************)
(* sanitize_response, sanitize_initiator, sanitize_request.  Each returns  *)
(* the object as the call leaves it (the object is mutated in place) and   *)
(* whether a KeyError ended the call.                                      *)
(***************************************************************************)
\* Mutant of sanitize_response: the cookies are left as they were.
sanitize_response_keeps_cookies(response) ==
    IF ~Has(response, "content")
    THEN [raised |-> TRUE, val |-> response]
    ELSE [raised |-> FALSE,
          val |-> Put(response, "content", Put(response.content, "text", STR_REDACTED))]

sanitize_response(response) ==
    IF ~Has(response, "content")
    THEN [raised |-> TRUE, val |-> response]
    ELSE [raised |-> FALSE,
          val |-> Put(Put(response, "content", Put(response.content, "text", STR_REDACTED)),
                      "cookies", <<>>)]

sanitize_initiator(initiator) ==
    IF Has(initiator, "url")
    THEN Put(initiator, "url", mask_query_string(initiator.url, SENSITIVE_KEYS))
    ELSE initiator

\* Mutant of RedactHeaders: the name is compared without regard to case.
RedactHeadersAnyCase(headers) ==
    [k \in 1..Len(headers) |->
        IF headers[k].name \in {"Authorization", "authorization"}
        THEN [headers[k] EXCEPT !.value = STR_REDACTED]
        ELSE headers[k]]

\* for header in headers: if header["name"] == "Authorization": header["value"] = STR_REDACTED
RedactHeaders(headers) ==
    [k \in 1..Len(headers) |->
        IF headers[k].name = "Authorization"
        THEN [headers[k] EXCEPT !.value = STR_REDACTED]
        ELSE headers[k]]

\* Mutant of RedactQueryString: every item is redacted, whatever its name.
RedactQueryStringAll(query_string_list) ==
    [k \in 1..Len(query_string_list) |->
        [query_string_list[k] EXCEPT !.value = STR_REDACTED]]

\* for qs in query_string_list: if qs["name"] in SENSITIVE_KEYS: qs["value"] = STR_REDACTED
RedactQueryString(query_string_list) ==
    [k \in 1..Len(query_string_list) |->
        IF query_string_list[k].name \in SENSITIVE_KEYS
        THEN [query_string_list[k] EXCEPT !.value = STR_REDACTED]
        ELSE query_string_list[k]]

\* url = request["url"]; request["url"] = mask_query_string(url, SENSITIVE_KEYS)
RequestUrl(request) ==
    IF ~Has(request, "url") THEN [raised |-> TRUE, val |-> request]
    ELSE [raised |-> FALSE,
          val |-> Put(request, "url", mask_query_string(request.url, SENSITIVE_KEYS))]

\* query_string_list = request["queryString"]; for qs in query_string_list: ...
RequestQueryString(request) ==
    IF ~Has(request, "queryString") THEN [raised |-> TRUE, val |-> request]
    ELSE RequestUrl(Put(request, "queryString", RedactQueryString(request.queryString)))

\* headers = request["headers"]; for header in headers: ...
RequestHeaders(request) ==
    IF ~Has(request, "headers") THEN [raised |-> TRUE, val |-> request]
    ELSE RequestQueryString(Put(request, "headers", RedactHeaders(request.headers)))

\* request["cookies"] = []
RequestCookies(request) == RequestHeaders(Put(request, "cookies", <<>>))

\* if "postData" in request: request["postData"]["text"] = STR_REDACTED
sanitize_request(request) ==
    RequestCookies(IF Has(request, "postData")
                   THEN Put(request, "postData", Put(request.postData, "text", STR_REDACTED))
                   ELSE request)

(***************************************************************************)
(* The body of the for loop of sanitize_har_object, one statement each.    *)
(***************************************************************************)
\* if "_initiator" not in entry:
InitiatorGuard(entry) == ~Has(entry, "_initiator")

\* if "_initiator" not in entry:
\*     entry["_initiator"] = sanitize_initiator(entry["_initiator"])
InitiatorStmt(entry) ==
    IF InitiatorGuard(entry)
    THEN IF ~Has(entry, "_initiator")
         THEN [raised |-> TRUE, val |-> entry]
         ELSE [raised |-> FALSE,
               val |-> Put(entry, "_initiator", sanitize_initiator(entry["_initiator"]))]
    ELSE [raised |-> FALSE, val |-> entry]

\* entry[key] = <the call's result>; the call mutated entry[key] in place.
Store(entry, key, r) == [raised |-> r.raised, val |-> Put(entry, key, r.val)]

\* entry["request"] = sanitize_request(entry["request"])
RequestStmt(entry) ==
    IF ~Has(entry, "request") THEN [raised |-> TRUE, val |-> entry]
    ELSE Store(entry, "request", sanitize_request(entry.request))

\* Mutant of ResponseStmt: an entry without a response is skipped.
ResponseStmtSkips(entry) ==
    IF ~Has(entry, "response") THEN [raised |-> FALSE, val |-> entry]
    ELSE Store(entry, "response", sanitize_response(entry.response))

\* entry["response"] = sanitize_response(entry["response"])
ResponseStmt(entry) ==
    IF ~Has(entry, "response") THEN [raised |-> TRUE, val |-> entry]
    ELSE Store(entry, "response", sanitize_response(entry.response))

(***************************************************************************)
(* Input documents.                                                        *)
(***************************************************************************)
UrlSigned == <<"https", ":", "/", "/", "x.example", "/", "a", "?",
               "X-Amz-Signature", "=", "secret", "&", "foo", "=", "bar1">>
UrlInitiator == <<"https", ":", "/", "/", "x.example", "/", "f", "?",
                  "X-Amz-Credential", "=", "secret">>
UrlSlashes == <<"/", "/", "/", "/">>
UrlLeadingSpace == <<" ", "\n">> \o UrlSigned

HeadersMixed == << [name |-> "Authorization", value |-> "Bearer xyz"],
                   [name |-> "authorization", value |-> "lower token"],
                   [name |-> "Accept", value |-> "text/html"],
                   [name |-> "Authorization", value |-> "Basic abc"] >>
QueryMixed == << [name |-> "X-Amz-Signature", value |-> "secret"],
                 [name |-> "foo", value |-> "bar1"],
                 [name |-> "x-amz-signature", value |-> "lower secret"] >>

ReqFull == [method |-> "POST", url |-> UrlSigned, headers |-> HeadersMixed,
            queryString |-> QueryMixed, cookies |-> <<"sid=1">>,
            postData |-> [mimeType |-> "text/plain", text |-> "password=hunter2"]]
ReqNoPost == [method |-> "GET", url |-> UrlSigned, headers |-> HeadersMixed,
              queryString |-> QueryMixed, cookies |-> <<"sid=1">>]
ReqBare == [method |-> "PUT", url |-> UrlLeadingSpace, headers |-> HeadersMixed,
            queryString |-> QueryMixed, postData |-> [mimeType |-> "text/plain"]]
ReqNoHeaders == [method |-> "POST", url |-> UrlSigned, queryString |-> QueryMixed,
                 cookies |-> <<"sid=1">>,
                 postData |-> [mimeType |-> "text/plain", text |-> "password=hunter2"]]
ReqNoQuery == [method |-> "GET", url |-> UrlSigned, headers |-> HeadersMixed,
               cookies |-> <<"sid=1">>]
ReqSlashes == [method |-> "GET", url |-> UrlSlashes, headers |-> <<>>,
               queryString |-> <<>>, cookies |-> <<>>]

RespFull == [status |-> "200", content |-> [mimeType |-> "text/html", text |-> "secret body"],
             cookies |-> <<"c=1">>]
RespBare == [status |-> "204", content |-> [mimeType |-> "x-unknown"]]
RespNoContent == [status |-> "304", cookies |-> <<"c=1">>]

InitWithUrl == [type |-> "script", url |-> UrlInitiator]
InitNoUrl == [type |-> "parser"]

Entries ==
    { [_initiator |-> InitWithUrl, request |-> ReqFull, response |-> RespFull,
       startedDateTime |-> "t1"],
      [request |-> ReqNoPost, response |-> RespFull],
      [_initiator |-> InitNoUrl, request |-> ReqBare, response |-> RespBare],
      [_initiator |-> InitWithUrl, request |-> ReqFull],
      [_initiator |-> InitNoUrl, response |-> RespFull],
      [_initiator |-> InitNoUrl, request |-> ReqNoHeaders, response |-> RespFull],
      [_initiator |-> InitNoUrl, request |-> ReqNoQuery, response |-> RespFull],
      [_initiator |-> InitWithUrl, request |-> ReqNoPost, response |-> RespNoContent],
      [_initiator |-> InitNoUrl, request |-> ReqSlashes, response |-> RespBare] }

EntryLists == UNION {[1..n -> Entries] : n \in 0..MaxEntries}

Documents == {[log |-> [version |-> "1.2", entries |-> es]] : es \in EntryLists}

(***************************************************************************)
(* main: json.loads has returned; sanitize_har_object runs statement by    *)
(* statement; then the result is serialised and written.                   *)
(***************************************************************************)
entries == data.log.entries

SetEntry(doc, k, entry) ==
    [doc EXCEPT !.log.entries = [@ EXCEPT ![k] = entry]]

Idle ==
    /\ mpc = "off"
    /\ url = <<>>
    /\ parsed_url = urlparse(<<>>)
    /\ query_params = <<>>
    /\ masked_url = <<>>

Init ==
    /\ Idle
    /\ pc = "sanitize"
    /\ input_data \in Documents
    /\ data = input_data
    /\ idx = 1
    /\ step = "initiator"
    /\ error = NoError
    /\ output \in BOOLEAN
    /\ written = [dir |-> FALSE, file |-> <<>>, stdout |-> <<>>]
    /\ pass = 1
    /\ first = <<>>

\* Mutant of RunStmt: a statement that raises leaves the entry as it found it.
RunStmtRollsBack(s, after, r) ==
    /\ data' = IF r.raised THEN data ELSE SetEntry(data, idx, r.val)
    /\ IF r.raised
       THEN /\ error' = [kind |-> "KeyError", step |-> s, at |-> idx]
            /\ pc' = "failed"
            /\ UNCHANGED <<idx, step>>
       ELSE /\ UNCHANGED <<error, pc>>
            /\ IF after = "initiator"
               THEN idx' = idx + 1 /\ step' = after
               ELSE idx' = idx /\ step' = after
    /\ UNCHANGED <<input_data, output, written, pass, first>>
    /\ UNCHANGED maskVars

\* One statement of the loop body on entry idx, r being what it did.  A
\* KeyError is not caught anywhere: it ends the process, and the object stays
\* as the statement left it.
RunStmt(s, after, r) ==
    /\ data' = SetEntry(data, idx, r.val)
    /\ IF r.raised
       THEN /\ error' = [kind |-> "KeyError", step |-> s, at |-> idx]
            /\ pc' = "failed"
            /\ UNCHANGED <<idx, step>>
       ELSE /\ UNCHANGED <<error, pc>>
            /\ IF after = "initiator"
               THEN idx' = idx + 1 /\ step' = after
               ELSE idx' = idx /\ step' = after
    /\ UNCHANGED <<input_data, output, written, pass, first>>
    /\ UNCHANGED maskVars

InitiatorStep ==
    /\ pc = "sanitize"
    /\ idx <= Len(entries)
    /\ step = "initiator"
    /\ RunStmt("initiator", "request", InitiatorStmt(entries[idx]))

RequestStep ==
    /\ pc = "sanitize"
    /\ idx <= Len(entries)
    /\ step = "request"
    /\ RunStmt("request", "response", RequestStmt(entries[idx]))

ResponseStep ==
    /\ pc = "sanitize"
    /\ idx <= Len(entries)
    /\ step = "response"
    /\ RunStmt("response", "initiator", ResponseStmt(entries[idx]))

\* return data
Return ==
    /\ pc = "sanitize"
    /\ idx > Len(entries)
    /\ pc' = "returned"
    /\ UNCHANGED <<input_data, data, idx, step, error, output, written, pass, first>>
    /\ UNCHANGED maskVars

\* output_string = json.dumps(output_data, ensure_ascii=False)
Dump ==
    /\ pc = "returned"
    /\ pass = 1
    /\ pc' = "dumped"
    /\ UNCHANGED <<input_data, data, idx, step, error, output, written, pass, first>>
    /\ UNCHANGED maskVars

\* output_file.parent.mkdir(exist_ok=True, parents=True)
Mkdir ==
    /\ pc = "dumped"
    /\ output
    /\ written' = [written EXCEPT !.dir = TRUE]
    /\ pc' = "mkdir"
    /\ UNCHANGED <<input_data, data, idx, step, error, output, pass, first>>
    /\ UNCHANGED maskVars

\* output_file.write_text(output_string)
WriteText ==
    /\ pc = "mkdir"
    /\ written' = [written EXCEPT !.file = <<data>>]
    /\ pc' = "done"
    /\ UNCHANGED <<input_data, data, idx, step, error, output, pass, first>>
    /\ UNCHANGED maskVars

\* print(output_string)
PrintOut ==
    /\ pc = "dumped"
    /\ ~output
    /\ written' = [written EXCEPT !.stdout = <<data>>]
    /\ pc' = "done"
    /\ UNCHANGED <<input_data, data, idx, step, error, output, pass, first>>
    /\ UNCHANGED maskVars

Next ==
    \/ InitiatorStep
    \/ RequestStep
    \/ ResponseStep
    \/ Return
    \/ Dump
    \/ Mkdir
    \/ WriteText
    \/ PrintOut

Spec == Init /\ [][Next]_vars

(***************************************************************************)
(* sanitize_har_object applied to its own result.                          *)
(***************************************************************************)
Resanitize ==
    /\ pc = "returned"
    /\ pass = 1
    /\ first' = data
    /\ pass' = 2
    /\ idx' = 1
    /\ step' = "initiator"
    /\ pc' = "sanitize"
    /\ UNCHANGED <<input_data, data, error, output, written>>
    /\ UNCHANGED maskVars

NextTwice ==
    \/ InitiatorStep
    \/ RequestStep
    \/ ResponseStep
    \/ Return
    \/ Resanitize

SpecTwice == Init /\ [][NextTwice]_vars

(***************************************************************************)
(* mask_query_string on its own, over URLs built from a frame (what stands *)
(* before and after the query string) and up to MaxParams fields.          *)
(***************************************************************************)
Frames ==
    { [pre |-> <<"https", ":", "/", "/", "x.example", "/", "a">>, post |-> <<>>],
      [pre |-> <<"HTTPS", ":", "/", "/", "x.example", "/", "a", ";", "p">>,
       post |-> <<"#", "f">>],
      [pre |-> <<"/", "a">>, post |-> <<"#">>],
      [pre |-> <<"http", ":", "a">>, post |-> <<>>],
      [pre |-> <<"/", "/", "/", "/", "a">>, post |-> <<>>],
      [pre |-> <<" ", "\t", "https", ":", "/", "\t", "/", "x.example", "/", "a">>,
       post |-> <<>>] }

Fields ==
    { <<"X-Amz-Signature", "=", "secret">>,
      <<"X-Amz-Signature", "=", "other">>,
      <<"X-Amz-Credential", "=", "secret">>,
      <<"X-Amz-Signature", "=">>,
      <<"x-amz-signature", "=", "secret">>,
      <<"foo", "=", "bar1">>,
      <<"foo", "=">>,
      <<"foo">>,
      <<"foo", "=", "a", "=", "secret">>,
      <<"a", "=", "secret", "+", "%26", "bar1">>,
      <<"foo", "=", " ", "%09", "bar1">>,
      <<>> }

FieldLists == UNION {[1..n -> Fields] : n \in 1..MaxParams}

MaskInputs ==
    {f.pre \o f.post : f \in Frames}
    \cup {f.pre \o <<"?">> \o Join(fl, "&") \o f.post : f \in Frames, fl \in FieldLists}

InitMask ==
    /\ mpc = "call"
    /\ url \in MaskInputs
    /\ parsed_url = urlparse(<<>>)
    /\ query_params = <<>>
    /\ masked_url = <<>>
    /\ pc = "off"
    /\ input_data = [log |-> [version |-> "1.2", entries |-> <<>>]]
    /\ data = input_data
    /\ idx = 1
    /\ step = "initiator"
    /\ error = NoError
    /\ output = FALSE
    /\ written = [dir |-> FALSE, file |-> <<>>, stdout |-> <<>>]
    /\ pass = 1
    /\ first = <<>>

\* parsed_url = urlparse(url); query_params = parse_qs(parsed_url.query)
ParseUrl ==
    /\ mpc = "call"
    /\ parsed_url' = urlparse(url)
    /\ query_params' = parse_qs(parsed_url'.query)
    /\ mpc' = "parsed"
    /\ UNCHANGED <<url, masked_url>>
    /\ UNCHANGED mainVars

\* for key in masked_keys: ...
MaskKeys ==
    /\ mpc = "parsed"
    /\ query_params' = MaskParams(query_params, SENSITIVE_KEYS)
    /\ mpc' = "masked"
    /\ UNCHANGED <<url, parsed_url, masked_url>>
    /\ UNCHANGED mainVars

\* masked_query = urlencode(...); masked_url = urlunparse(...); return masked_url
ReturnMasked ==
    /\ mpc = "masked"
    /\ masked_url' = Reconstruct(parsed_url, query_params)
    /\ mpc' = "done"
    /\ UNCHANGED <<url, parsed_url, query_params>>
    /\ UNCHANGED mainVars

NextMask ==
    \/ ParseUrl
    \/ MaskKeys
    \/ ReturnMasked

SpecMask == InitMask /\ [][NextMask]_vars

(***************************************************************************)
(* Properties.                                                             *)
(***************************************************************************)
orig == input_data.log.entries

\* sanitize_har_object has returned (main may have gone on to write).
Returned == pc \in {"returned", "dumped", "mkdir", "done"}

\* The request statement of entry k has run to its end.
RequestDone(k) == k < idx \/ (k = idx /\ step = "response")

\* obj without the keys in keys.
Others(obj, keys) == [k \in DOMAIN obj \ keys |-> obj[k]]

NothingWritten == written = [dir |-> FALSE, file |-> <<>>, stdout |-> <<>>]

\* ---- C1 ----------------------------------------------------------------
\* C1: a document whose entries all have request (with headers, queryString,
\* url) and response (with content) is sanitized without error, also when an
\* entry has no postData and no _initiator.
HasMandatory(entry) ==
    /\ Has(entry, "request")
    /\ Has(entry, "response")
    /\ Has(entry.request, "headers")
    /\ Has(entry.request, "queryString")
    /\ Has(entry.request, "url")
    /\ Has(entry.response, "content")

\* C1: every entry having its mandatory fields, the run never ends in an error.
C1_AbsentOptionalKeysAreNoError ==
    (\A k \in 1..Len(orig) : HasMandatory(orig[k])) => pc # "failed"

\* ---- C2 ----------------------------------------------------------------
\* C2: when sanitize_har_object has returned, the url of every _initiator
\* that has one is mask_query_string of the original url, and holds no
\* original value of a sensitive parameter.
C2_InitiatorUrlMasked ==
    Returned =>
        \A k \in 1..Len(orig) :
            (Has(orig[k], "_initiator") /\ Has(orig[k]["_initiator"], "url")) =>
                /\ entries[k]["_initiator"].url =
                       mask_query_string(orig[k]["_initiator"].url, SENSITIVE_KEYS)
                /\ ~Contains(entries[k]["_initiator"].url, "secret")

\* ---- C3 ----------------------------------------------------------------
\* C3: when sanitize_har_object has returned, every entry has
\* response.content.text = "REDACTED", request.cookies = [] and
\* response.cookies = [], whatever was there before.
C3_Completeness ==
    Returned =>
        \A k \in 1..Len(entries) :
            /\ Has(entries[k].response.content, "text")
            /\ entries[k].response.content.text = STR_REDACTED
            /\ Has(entries[k].request, "cookies")
            /\ entries[k].request.cookies = <<>>
            /\ Has(entries[k].response, "cookies")
            /\ entries[k].response.cookies = <<>>

\* Reached: a returned run over an entry that had no content.text and no
\* cookies keys, and over one that had cookies and a body.
C3_Witness ==
    /\ Returned
    /\ \E k \in 1..Len(orig) :
          /\ ~Has(orig[k].response.content, "text")
          /\ ~Has(orig[k].response, "cookies")
          /\ ~Has(orig[k].request, "cookies")
    /\ \E k \in 1..Len(orig) :
          /\ Has(orig[k].response, "cookies")
          /\ orig[k].response.cookies # <<>>
          /\ orig[k].request.cookies # <<>>
          /\ orig[k].response.content.text = "secret body"

\* ---- C4 ----------------------------------------------------------------
\* C4: sanitize_har_object applied to its own result returns that result.
C4_Idempotent ==
    (pass = 2 /\ pc = "returned") => data = first

\* ---- C5 ----------------------------------------------------------------
\* The items of a name/value list keep their number, order and names, and
\* the items that are no target keep their value.
SameItems(out, in, targets) ==
    /\ Len(out) = Len(in)
    /\ \A j \in 1..Len(in) :
          /\ DOMAIN out[j] = DOMAIN in[j]
          /\ out[j].name = in[j].name
          /\ in[j].name \notin targets => out[j].value = in[j].value

SameRequestFrame(out, in) ==
    /\ DOMAIN out = DOMAIN in \cup {"cookies"}
    /\ Others(out, {"postData", "cookies", "headers", "queryString", "url"})
         = Others(in, {"postData", "cookies", "headers", "queryString", "url"})
    /\ Has(in, "postData") =>
          /\ DOMAIN out.postData = DOMAIN in.postData \cup {"text"}
          /\ Others(out.postData, {"text"}) = Others(in.postData, {"text"})
    /\ SameItems(out.headers, in.headers, {"Authorization"})
    /\ SameItems(out.queryString, in.queryString, SENSITIVE_KEYS)

SameResponseFrame(out, in) ==
    /\ DOMAIN out = DOMAIN in \cup {"cookies"}
    /\ Others(out, {"content", "cookies"}) = Others(in, {"content", "cookies"})
    /\ DOMAIN out.content = DOMAIN in.content \cup {"text"}
    /\ Others(out.content, {"text"}) = Others(in.content, {"text"})

SameEntryFrame(out, in) ==
    /\ DOMAIN out = DOMAIN in
    /\ Others(out, {"_initiator", "request", "response"})
         = Others(in, {"_initiator", "request", "response"})
    /\ Has(in, "_initiator") =>
          /\ DOMAIN out["_initiator"] = DOMAIN in["_initiator"]
          /\ Others(out["_initiator"], {"url"}) = Others(in["_initiator"], {"url"})
    /\ SameRequestFrame(out.request, in.request)
    /\ SameResponseFrame(out.response, in.response)

\* C5: when sanitize_har_object has returned, the document has the same
\* entries in the same order with the same keys, headers and queryString keep
\* their order, and every value that is no target of a rule is the input's.
C5_StructurePreserved ==
    Returned =>
        /\ DOMAIN data = DOMAIN input_data
        /\ DOMAIN data.log = DOMAIN input_data.log
        /\ data.log.version = input_data.log.version
        /\ Len(entries) = Len(orig)
        /\ \A k \in 1..Len(orig) : SameEntryFrame(entries[k], orig[k])

\* Reached: a returned run over several entries, one with an extra key, a
\* header and a queryString item that are no targets, and a new cookies key.
C5_Witness ==
    /\ Returned
    /\ Len(orig) >= 2
    /\ \E k \in 1..Len(orig) : Has(orig[k], "startedDateTime")
    /\ \E k \in 1..Len(orig) :
          /\ ~Has(orig[k].request, "cookies")
          /\ \E j \in 1..Len(orig[k].request.headers) :
                orig[k].request.headers[j].name = "Accept"
          /\ \E j \in 1..Len(orig[k].request.queryString) :
                orig[k].request.queryString[j].name = "foo"

\* ---- C6 ----------------------------------------------------------------
\* C6: once sanitize_request has run on an entry, every header named exactly
\* "Authorization" has the value "REDACTED", and every other header, one
\* named "authorization" included, has its name and value unchanged.
C6_HeaderTargeting ==
    \A k \in 1..Len(orig) :
        RequestDone(k) =>
            /\ Len(entries[k].request.headers) = Len(orig[k].request.headers)
            /\ \A j \in 1..Len(orig[k].request.headers) :
                  /\ entries[k].request.headers[j].name = orig[k].request.headers[j].name
                  /\ entries[k].request.headers[j].value =
                        IF orig[k].request.headers[j].name = "Authorization"
                        THEN STR_REDACTED
                        ELSE orig[k].request.headers[j].value

\* Reached: sanitize_request has run on headers with two Authorization
\* headers and an authorization header.
C6_Witness ==
    \E k \in 1..Len(orig) :
        /\ RequestDone(k)
        /\ Cardinality({j \in 1..Len(orig[k].request.headers) :
              orig[k].request.headers[j].name = "Authorization"
              /\ orig[k].request.headers[j].value # STR_REDACTED}) = 2
        /\ \E j \in 1..Len(orig[k].request.headers) :
              /\ orig[k].request.headers[j].name = "authorization"
              /\ entries[k].request.headers[j].value = "lower token"

\* ---- C7, C8 ------------------------------------------------------------
\* The fields name=value of a query string, an empty value included, decoded.
RawPairs(qs) ==
    SelectSeq([i \in 1..Len(Split(qs, "&")) |->
                  IF Len(Split1(Split(qs, "&")[i], "=")) = 2
                  THEN [name |-> unquote(Split1(Split(qs, "&")[i], "=")[1]),
                        value |-> unquote(Split1(Split(qs, "&")[i], "=")[2])]
                  ELSE [name |-> <<"">>, value |-> <<"">>]],
              LAMBDA p : p.name # <<"">>)

\* The values the name has in the query string, in order.
ValuesOf(qs, name) ==
    [i \in 1..Len(SelectSeq(RawPairs(qs), LAMBDA p : p.name = name)) |->
        SelectSeq(RawPairs(qs), LAMBDA p : p.name = name)[i].value]

NamesOf(qs) == {RawPairs(qs)[i].name : i \in 1..Len(RawPairs(qs))}

\* C7: a sensitive name that occurs n >= 1 times in the query string of the
\* url occurs n times in the query string of the result, each time with the
\* value "REDACTED".
C7_RepeatedValueMasking ==
    mpc = "done" =>
        \A key \in SENSITIVE_KEYS :
            <<key>> \in NamesOf(urlparse(url).query) =>
                ValuesOf(urlparse(masked_url).query, <<key>>) =
                    [i \in 1..Len(ValuesOf(urlparse(url).query, <<key>>)) |->
                        <<STR_REDACTED>>]

\* C8: every parameter that is not sensitive is in the result with the same
\* values, empty ones included, and scheme, network location, path,
\* parameters and fragment are those of the url.
C8_NoParameterDropped ==
    mpc = "done" =>
        /\ \A name \in NamesOf(urlparse(url).query) :
              (\A key \in SENSITIVE_KEYS : name # <<key>>) =>
                  ValuesOf(urlparse(masked_url).query, name) =
                      ValuesOf(urlparse(url).query, name)
        /\ urlparse(masked_url).scheme = urlparse(url).scheme
        /\ urlparse(masked_url).netloc = urlparse(url).netloc
        /\ urlparse(masked_url).path = urlparse(url).path
        /\ urlparse(masked_url).params = urlparse(url).params
        /\ urlparse(masked_url).fragment = urlparse(url).fragment

\* ---- C9 ----------------------------------------------------------------
LacksRequired(entry) ==
    \/ ~Has(entry, "response")
    \/ ~Has(entry, "request")
    \/ Has(entry, "request") /\ ~Has(entry.request, "headers")
    \/ Has(entry, "request") /\ ~Has(entry.request, "queryString")
    \/ Has(entry, "response") /\ ~Has(entry.response, "content")

\* C9: when an entry lacks a required key, the loop never gets past that
\* entry, sanitize_har_object never returns, the only way the run ends is a
\* KeyError, and main writes no file, no directory and nothing to stdout.
C9_SchemaErrorWritesNothing ==
    \A k \in 1..Len(orig) :
        LacksRequired(orig[k]) =>
            /\ idx <= k
            /\ pc \in {"sanitize", "failed"}
            /\ pc = "failed" => error.kind = "KeyError"
            /\ NothingWritten

\* Reached: the run failed at a later entry that has its _initiator but no
\* response, after an entry was sanitized, with -o given.
C9_Witness ==
    /\ pc = "failed"
    /\ output
    /\ error.at = 2
    /\ error.step = "response"
    /\ Has(orig[2], "_initiator")
    /\ ~Has(orig[2], "response")

\* ---- C10 ---------------------------------------------------------------
\* All the rules of sanitize_request have been applied to the request.
RequestRedacted(out, in) ==
    /\ Has(out, "headers") /\ Has(out, "queryString") /\ Has(out, "url")
    /\ Has(out, "cookies") /\ out.cookies = <<>>
    /\ Has(out, "postData") => out.postData.text = STR_REDACTED
    /\ \A j \in 1..Len(out.headers) :
          out.headers[j].name = "Authorization" => out.headers[j].value = STR_REDACTED
    /\ \A j \in 1..Len(out.queryString) :
          out.queryString[j].name \in SENSITIVE_KEYS =>
              out.queryString[j].value = STR_REDACTED
    /\ out.url = mask_query_string(in.url, SENSITIVE_KEYS)

ResponseRedacted(out) ==
    /\ Has(out, "content") /\ Has(out.content, "text")
    /\ out.content.text = STR_REDACTED
    /\ Has(out, "cookies") /\ out.cookies = <<>>

\* C10: when the run fails at entry k, the entries before k are redacted, the
\* entries after k are the input's, and entry k has its request redacted
\* exactly when the response statement failed: a failure of the initiator
\* statement leaves entry k as it was, a failure of the request statement
\* leaves the request cleared of its cookies but not redacted.
C10_PartialMutation ==
    pc = "failed" =>
        /\ idx = error.at
        /\ \A i \in 1..Len(orig) :
              /\ i < error.at =>
                    /\ RequestRedacted(entries[i].request, orig[i].request)
                    /\ ResponseRedacted(entries[i].response)
              /\ i > error.at => entries[i] = orig[i]
        /\ error.step = "initiator" => entries[error.at] = orig[error.at]
        /\ error.step = "request" =>
              /\ Has(entries[error.at], "request") =>
                    /\ entries[error.at].request.cookies = <<>>
                    /\ ~RequestRedacted(entries[error.at].request,
                                        orig[error.at].request)
              /\ Others(entries[error.at], {"request"})
                    = Others(orig[error.at], {"request"})
        /\ error.step = "response" =>
              /\ RequestRedacted(entries[error.at].request, orig[error.at].request)
              /\ Others(entries[error.at], {"request"})
                    = Others(orig[error.at], {"request"})

\* Reached: a failure of the response statement at the second of three
\* entries, the first two having had cookies in their requests.
C10_Witness ==
    /\ pc = "failed"
    /\ Len(orig) = 3
    /\ error.at = 2
    /\ error.step = "response"
    /\ Has(orig[1], "request") /\ Has(orig[1].request, "cookies")
    /\ orig[1].request.cookies # <<>>
    /\ Has(orig[2].request, "postData")
    /\ orig[2].request.cookies # <<>>
    /\ Has(orig[3], "request")

====
